---- MODULE Spec2Model ----
(***************************************************************************)
(* A model of the commit-provenance classifier                             *)
(* (git_commit_analysis.py: compute_pr_vs_direct_commit_ratio), of the     *)
(* sampled PR statistics estimator (analyze_org_repos.py:                  *)
(* analyze_single_repo, github_pr_metrics.py: analyze_pr_metrics) and of   *)
(* the multi-repository loop (analyze_org_repos.py: main).                 *)
(*                                                                         *)
(* Three specifications share the variables:                               *)
(*   SpecClassifier  one run of compute_pr_vs_direct_commit_ratio over a   *)
(*                   commit DAG drawn from Histories;                      *)
(*   SpecRepo        one run of analyze_single_repo, one action per        *)
(*                   external command, over provider responses drawn from  *)
(*                   RepoInputs;                                           *)
(*   SpecMain        the repository loop of main and what follows it.      *)
(* The variables a specification does not use keep their idle values.      *)
(***************************************************************************)
EXTENDS Integers, Sequences, FiniteSets, TLC

VARIABLES
    \* ---- compute_pr_vs_direct_commit_ratio
    parents,             \* the commit DAG: parents[c] is the ordered parent list of commit c
    gpc,                 \* position in compute_pr_vs_direct_commit_ratio
    all_commits_set,     \* set(all_commits), line 211
    merge_commits,       \* the merge commits still to be visited by the for loop, line 223
    pr_commits_set,      \* the running PR set, line 222
    pr_commits_on_main,  \* line 218 / 236
    direct_commits,      \* line 238
    git_result,          \* the returned dict, or None
    queries_ok,          \* no git query of this run has failed so far
    \* ---- analyze_single_repo
    provider,            \* what the gh commands of this run answer
    rpc,                 \* position in analyze_single_repo
    repo_info,           \* line 115
    pr_output,           \* line 124: what run_command returned for gh pr list
    merged_prs,          \* line 160
    sample_size,         \* line 168
    idx,                 \* iterations of the loop of line 172 completed
    commit_counts,       \* line 167
    attempted,           \* history: the numbers of the pull requests gh pr view was run for
    metrics,             \* line 126
    \* ---- main (analyze_org_repos.py)
    org_repos,           \* the repositories gh repo list prints for the organization
    startup,             \* history: how the commands before the loop ended
    repos,               \* line 341: for each repository, what gh answers about it
    export_csv,          \* args.export_csv is given
    mpc,                 \* position in main
    loop_i,              \* i of the loop of line 365
    all_metrics,         \* line 360
    report,              \* what generate_org_summary reported
    csv_rows,            \* the rows export_to_csv wrote
    outcomes,            \* history: how the analysis of each repository ended
    interrupted,         \* history: the i at which KeyboardInterrupt arrived, or 0
    \* ---- analyze_pr_vs_direct_commits (git_commit_analysis.py)
    pr_subjects,         \* the merge commits whose subject names a pull request
    pr_merges,           \* line 132
    to_sample,           \* what is left of pr_merges[:10] in the loop of line 158
    sample_pr_commits,   \* line 157
    printed_direct,      \* the "Estimated direct commits" printed at line 177, or None
    commit_stats         \* the returned dict, or None

gitVars == <<parents, gpc, all_commits_set, merge_commits, pr_commits_set,
             pr_commits_on_main, direct_commits, git_result, queries_ok>>

repoVars == <<provider, rpc, repo_info, pr_output, merged_prs, sample_size, idx,
              commit_counts, attempted, metrics>>

mainVars == <<org_repos, startup, repos, export_csv, mpc, loop_i, all_metrics, report, csv_rows,
              outcomes, interrupted>>

estVars == <<pr_subjects, pr_merges, to_sample, sample_pr_commits, printed_direct,
             commit_stats>>

vars == <<gitVars, repoVars, mainVars, estVars>>

\* Python's None, as a record so that it compares with the returned dicts.
None == [none |-> TRUE]

(***************************************************************************)
(* Bounds of the model.                                                    *)
(***************************************************************************)
MaxCommits == 5
MaxMerges == 2
MaxMerged == 24
MaxUnmerged == 1
MaxRepos == 3

(***************************************************************************)
(* The three programs are separate; while one runs, the variables of the   *)
(* other two stay at these values.                                         *)
(***************************************************************************)
NoDetail == [kind |-> "None", n |-> 0]

EmptyDict == [key \in {} |-> 0]

GitIdle ==
    /\ parents = << <<>> >>
    /\ gpc = "idle"
    /\ all_commits_set = {}
    /\ merge_commits = <<>>
    /\ pr_commits_set = {}
    /\ pr_commits_on_main = {}
    /\ direct_commits = {}
    /\ git_result = None
    /\ queries_ok = TRUE

RepoIdle ==
    /\ provider = [info |-> "error", listing |-> "error", unmerged |-> 0, merged |-> 0,
                   detail |-> <<NoDetail, NoDetail>>]
    /\ rpc = "idle"
    /\ repo_info = EmptyDict
    /\ pr_output = "unset"
    /\ merged_prs = <<>>
    /\ sample_size = 0
    /\ idx = 0
    /\ commit_counts = <<>>
    /\ attempted = <<>>
    /\ metrics = None

MainIdle ==
    /\ org_repos = <<>>
    /\ startup = None
    /\ repos = <<>>
    /\ export_csv = FALSE
    /\ mpc = "idle"
    /\ loop_i = 0
    /\ all_metrics = <<>>
    /\ report = None
    /\ csv_rows = None
    /\ outcomes = <<>>
    /\ interrupted = 0

EstIdle ==
    /\ pr_subjects = {}
    /\ pr_merges = <<>>
    /\ to_sample = <<>>
    /\ sample_pr_commits = <<>>
    /\ printed_direct = None
    /\ commit_stats = None

(***************************************************************************)
(* Commit histories.  Commits are numbered in the order they are created,  *)
(* so a parent has a smaller number than its child; the analysed branch    *)
(* points at the last commit.                                              *)
(***************************************************************************)
IsMerge(h, c) == Len(h[c]) >= 2

NumMerges(h) == Cardinality({c \in 1..Len(h) : IsMerge(h, c)})

Distinct(ps) == \A i \in 1..Len(ps) : \A j \in 1..Len(ps) : i # j => ps[i] # ps[j]

\* The parent lists a new commit c may have: one parent, or (a merge) two
\* or three distinct parents, in every order.
ParentLists(c, mayMerge) ==
    LET older == 1..(c - 1) IN
    {<<p>> : p \in older}
    \cup (IF mayMerge
          THEN {ps \in {<<p, q>> : p \in older, q \in older} \cup
                       {<<p, q, r>> : p \in older, q \in older, r \in older} :
                  Distinct(ps)}
          ELSE {})

\* reach(c): c and its ancestors (git rev-list c).
RECURSIVE Reach(_, _)
Reach(h, c) == {c} \cup UNION { Reach(h, h[c][i]) : i \in 1..Len(h[c]) }

BranchHead(h) == Len(h)

(***************************************************************************)
(* The git queries of compute_pr_vs_direct_commit_ratio.                   *)
(***************************************************************************)
\* git rev-list <branch>
RevList(h) == Reach(h, BranchHead(h))

\* A set of commits as the list git prints, newest first.
RECURSIVE NewestFirst(_)
NewestFirst(S) ==
    IF S = {} THEN <<>>
    ELSE LET m == CHOOSE x \in S : \A y \in S : y <= x
         IN <<m>> \o NewestFirst(S \ {m})

\* git log --merges --pretty=format:"%H" <branch>
LogMerges(h) == NewestFirst({c \in RevList(h) : IsMerge(h, c)})

\* git rev-list --parents -n 1 <sha>, split: the commit, then its parents.
ParentsLine(h, sha) == <<sha>> \o h[sha]

\* git rev-list <p2> ^<p1>
RevListNotIn(h, p2, p1) == Reach(h, p2) \ Reach(h, p1)

\* Lines 227-234: what one merge commit adds to pr_commits_set once its
\* parents line is known.
MergeContributionSwapped(h, line) ==
    IF Len(line) >= 3 THEN RevListNotIn(h, line[2], line[3]) ELSE {}

MergeContribution(h, line) ==
    IF Len(line) >= 3 THEN RevListNotIn(h, line[3], line[2]) ELSE {}

\* Line 234: pr_commits_set.update(...)
UpdateOverwrite(prs, new) == new

Update(prs, new) == prs \cup new

\* Line 236.
OnMain(prs, all) == prs \cap all

\* Line 238.
DirectReversed(all, pr) == pr \ all

Direct(all, pr) == all \ pr

\* Lines 249-255 (the two ratios are quotients of these counts).
ResultSwapped(all, pr, direct) ==
    [total_commits |-> Cardinality(all),
     pr_commits |-> Cardinality(direct),
     direct_commits |-> Cardinality(pr)]

ResultOf(all, pr, direct) ==
    [total_commits |-> Cardinality(all),
     pr_commits |-> Cardinality(pr),
     direct_commits |-> Cardinality(direct)]

(***************************************************************************)
(* compute_pr_vs_direct_commit_ratio, one action per git command.          *)
(***************************************************************************)
GitInit ==
    /\ parents = << <<>> >>
    /\ gpc = "history"
    /\ all_commits_set = {}
    /\ merge_commits = <<>>
    /\ pr_commits_set = {}
    /\ pr_commits_on_main = {}
    /\ direct_commits = {}
    /\ git_result = None
    /\ queries_ok = TRUE
    /\ RepoIdle
    /\ MainIdle
    /\ EstIdle

\* The history under analysis grows by one commit (git commit, git merge).
Commit ==
    /\ gpc = "history"
    /\ Len(parents) < MaxCommits
    /\ \E ps \in ParentLists(Len(parents) + 1, NumMerges(parents) < MaxMerges) :
         parents' = Append(parents, ps)
    /\ UNCHANGED <<gpc, all_commits_set, merge_commits, pr_commits_set,
                   pr_commits_on_main, direct_commits, git_result, queries_ok>>
    /\ UNCHANGED <<repoVars, mainVars, estVars>>

\* compute_pr_vs_direct_commit_ratio is called on the branch; the branch
\* head is the last commit and every commit of the history is on the branch.
CallClassifier ==
    /\ gpc = "history"
    /\ Reach(parents, BranchHead(parents)) = 1..Len(parents)
    /\ gpc' = "rev_list"
    /\ UNCHANGED <<parents, all_commits_set, merge_commits, pr_commits_set,
                   pr_commits_on_main, direct_commits, git_result, queries_ok>>
    /\ UNCHANGED <<repoVars, mainVars, estVars>>

\* Lines 236-255 (218 when no merge commit was listed): the two sets and
\* the returned record.
Classify(all, pr) ==
    /\ pr_commits_on_main' = pr
    /\ direct_commits' = Direct(all, pr)
    /\ git_result' = ResultOf(all, pr, Direct(all, pr))
    /\ gpc' = "done"

\* Lines 206-211: git rev-list <branch>; a failed command ends the
\* function with None.
RevListBranch ==
    /\ gpc = "rev_list"
    /\ \E ok \in BOOLEAN :
         IF ok
         THEN /\ all_commits_set' = RevList(parents)
              /\ gpc' = "log_merges"
              /\ UNCHANGED queries_ok
         ELSE /\ gpc' = "done"
              /\ queries_ok' = FALSE
              /\ UNCHANGED all_commits_set
    /\ UNCHANGED <<parents, merge_commits, pr_commits_set, pr_commits_on_main,
                   direct_commits, git_result>>
    /\ UNCHANGED <<repoVars, mainVars, estVars>>

\* Lines 215-222: git log --merges; no output (no merge commit, or a
\* failed command) takes the branch of line 218.
LogMergesStep ==
    /\ gpc = "log_merges"
    /\ \E ok \in BOOLEAN :
         LET out == IF ok THEN LogMerges(parents) ELSE <<>> IN
         /\ queries_ok' = (queries_ok /\ ok)
         /\ IF out = <<>>
            THEN /\ Classify(all_commits_set, {})
                 /\ UNCHANGED <<merge_commits, pr_commits_set>>
            ELSE /\ merge_commits' = out
                 /\ pr_commits_set' = {}
                 /\ gpc' = "merge_loop"
                 /\ UNCHANGED <<pr_commits_on_main, direct_commits, git_result>>
    /\ UNCHANGED <<parents, all_commits_set>>
    /\ UNCHANGED <<repoVars, mainVars, estVars>>

\* Lines 223-234: one iteration of the loop over the merge commits, with
\* its two git commands; after the last one, lines 236-255.
MergeIteration ==
    /\ gpc = "merge_loop"
    /\ merge_commits # <<>>
    /\ \E parentsOk \in BOOLEAN, diffOk \in BOOLEAN :
         LET merge_sha == merge_commits[1]
             rest == Tail(merge_commits)
             line == ParentsLine(parents, merge_sha)
             updated == IF parentsOk /\ diffOk
                        THEN Update(pr_commits_set, MergeContribution(parents, line))
                        ELSE pr_commits_set
         IN /\ queries_ok' = (queries_ok /\ parentsOk /\ diffOk)
            /\ pr_commits_set' = updated
            /\ merge_commits' = rest
            /\ IF rest = <<>>
               THEN Classify(all_commits_set, OnMain(updated, all_commits_set))
               ELSE UNCHANGED <<gpc, pr_commits_on_main, direct_commits, git_result>>
    /\ UNCHANGED <<parents, all_commits_set>>
    /\ UNCHANGED <<repoVars, mainVars, estVars>>

GitNext == Commit \/ CallClassifier \/ RevListBranch \/ LogMergesStep \/ MergeIteration

(***************************************************************************)
(* Properties of compute_pr_vs_direct_commit_ratio (under SpecClassifier). *)
(***************************************************************************)
Returned == gpc = "done" /\ git_result # None

MergesOnBranch == {c \in all_commits_set : IsMerge(parents, c)}

\* C1: whatever the history and whichever git queries failed, a returned
\* classification is a partition of All: PR and Direct are disjoint, their
\* union is All, and the returned counts add up to total_commits.
C1_Partition ==
    Returned =>
        /\ pr_commits_on_main \cap direct_commits = {}
        /\ pr_commits_on_main \cup direct_commits = all_commits_set
        /\ all_commits_set = RevList(parents)
        /\ git_result.total_commits = Cardinality(all_commits_set)
        /\ git_result.pr_commits = Cardinality(pr_commits_on_main)
        /\ git_result.direct_commits = Cardinality(direct_commits)
        /\ git_result.pr_commits + git_result.direct_commits = git_result.total_commits

\* C1 witness: a run with a failed query that returned with both sets non-empty.
C1_Witness ==
    /\ Returned
    /\ ~queries_ok
    /\ pr_commits_on_main # {}
    /\ direct_commits # {}

\* C2 (the claim as stated): when every query succeeded, each non-first
\* parent of each merge commit on the branch, the third and later parents
\* of an octopus merge included, contributes reach(p_i) \ reach(p_1) to PR.
C2_EveryNonFirstParent ==
    (Returned /\ queries_ok) =>
        \A m \in MergesOnBranch : \A i \in 2..Len(parents[m]) :
            RevListNotIn(parents, parents[m][i], parents[m][1]) \subseteq pr_commits_on_main

\* The union, over the merge commits on the branch, of reach(p2) \ reach(p1).
SecondParentUnion ==
    UNION { RevListNotIn(parents, parents[m][2], parents[m][1]) : m \in MergesOnBranch }

OnlyTwoParentMerges == \A m \in MergesOnBranch : Len(parents[m]) = 2

\* C3: when every merge commit has exactly two parents and every query
\* succeeded, PR is All intersected with the union over the merge commits
\* of reach(p2) \ reach(p1).
C3_TwoParentUnion ==
    (Returned /\ queries_ok /\ OnlyTwoParentMerges) =>
        /\ pr_commits_on_main = all_commits_set \cap SecondParentUnion
        /\ git_result.pr_commits = Cardinality(all_commits_set \cap SecondParentUnion)

\* C3 witness: two two-parent merges, neither contribution containing the
\* other, three PR commits in all.
C3_Witness ==
    /\ Returned /\ queries_ok /\ OnlyTwoParentMerges
    /\ Cardinality(MergesOnBranch) = 2
    /\ \A m \in MergesOnBranch :
          RevListNotIn(parents, parents[m][2], parents[m][1]) \notin {{}, SecondParentUnion}
    /\ git_result.pr_commits = 3

\* C4: a history of N >= 1 commits without a merge commit yields PR = {}
\* and Direct = All: pr_commits = 0 and direct_commits = N.
C4_NoMerge ==
    (Returned /\ NumMerges(parents) = 0) =>
        /\ pr_commits_on_main = {}
        /\ direct_commits = all_commits_set
        /\ git_result.pr_commits = 0
        /\ git_result.direct_commits = Len(parents)

\* C4 witness: a linear history of at least three commits, classified.
C4_Witness ==
    /\ Returned
    /\ NumMerges(parents) = 0
    /\ Len(parents) >= 3
    /\ git_result.direct_commits = Len(parents)

(***************************************************************************)
(* analyze_single_repo (analyze_org_repos.py): values.                     *)
(*                                                                         *)
(* A float that the code computes as a quotient of integers is kept as     *)
(* that quotient, in lowest terms (Rat); 0.0 is Rat(0, 1).                 *)
(***************************************************************************)
RECURSIVE GCD(_, _)
GCD(a, b) == IF b = 0 THEN a ELSE GCD(b, a % b)

Rat(n, d) == LET g == GCD(n, d) IN [num |-> n \div g, den |-> d \div g]

RECURSIVE Sum(_)
Sum(seq) == IF seq = <<>> THEN 0 ELSE seq[1] + Sum(Tail(seq))

\* sorted(data), by insertion.
RECURSIVE SortedSeq(_)
SortedSeq(seq) ==
    IF seq = <<>> THEN <<>>
    ELSE LET rest == SortedSeq(Tail(seq))
             x == seq[1]
             below == SelectSeq(rest, LAMBDA y : y < x)
             above == SelectSeq(rest, LAMBDA y : y >= x)
         IN below \o <<x>> \o above

\* statistics.mean of a non-empty list of ints.
Mean(data) == Rat(Sum(data), Len(data))

\* statistics.median of a non-empty list of ints: the middle element, or
\* the mean of the two middle elements.
Median(data) ==
    LET srt == SortedSeq(data)
        n == Len(data)
    IN IF n % 2 = 1 THEN Rat(srt[(n \div 2) + 1], 1)
       ELSE Rat(srt[n \div 2] + srt[(n \div 2) + 1], 2)

(***************************************************************************)
(* int(x * (N / k)), lines 210-214, in IEEE-754 double arithmetic, for     *)
(* integers x >= 0, N > 0 and k > 0.                                       *)
(*                                                                         *)
(* N / k is rounded to a double s.  With 2^e <= N/k < 2^(e+1) and          *)
(* q = MantissaBits - e, s is a multiple of 2^-q, so                       *)
(*     s = N/k + d / (k * 2^q),   d = -r if 2r < k, and k - r otherwise,   *)
(* where r = (N * 2^q) mod k (r = k/2 does not occur: N/k would need       *)
(* MantissaBits + 2 significant bits).  The exact product is then          *)
(*     x * s = x*N/k + x*d / (k * 2^q),                                    *)
(* and it is rounded to a double p before int() truncates it.              *)
(*  - If k does not divide x*N, x*N/k is at least 1/k away from an         *)
(*    integer while both errors are far smaller: int(p) = floor(x*N/k).    *)
(*  - If k divides x*N, let F = x*N/k (a double).  For d >= 0, p >= F and  *)
(*    int(p) = F.  For d < 0 the product lies below F, where doubles are   *)
(*    spaced u = 2^(e2 - MantissaBits) apart (2^e2 <= F < 2^(e2+1); half   *)
(*    that when F = 2^e2): p = F when the product is within half a         *)
(*    spacing of F (a tie goes to F, whose mantissa is even), and p < F,   *)
(*    so int(p) = F - 1, otherwise.                                        *)
(***************************************************************************)
MantissaBits == 52

RECURSIVE Pow2(_)
Pow2(n) == IF n = 0 THEN 1 ELSE 2 * Pow2(n - 1)

\* The e with 2^e <= a / b < 2^(e+1), for a > 0 and b > 0.
RECURSIVE Exponent(_, _)
Exponent(a, b) ==
    IF a < b THEN Exponent(2 * a, b) - 1
    ELSE IF 2 * b <= a THEN 1 + Exponent(a, 2 * b)
    ELSE 0

\* 2^q mod k.
RECURSIVE Pow2Mod(_, _)
Pow2Mod(q, k) == IF q = 0 THEN 1 % k ELSE (2 * Pow2Mod(q - 1, k)) % k

\* d, in units of 1 / (k * 2^q): the rounding error of the double N / k.
DivisionError(N, k) ==
    LET q == MantissaBits - Exponent(N, k)
        r == ((N % k) * Pow2Mod(q, k)) % k
    IN IF 2 * r < k THEN 0 - r ELSE k - r

ExactScale(x, N, k) == (x * N) \div k

FloatScaleInverted(x, N, k) == (x * k) \div N

FloatScaleUp(x, N, k) == (x * N + k - 1) \div k

FloatScale(x, N, k) ==
    LET F == (x * N) \div k
        d == DivisionError(N, k)
        \* the doubles below F are spaced u apart: u / 2, in units of
        \* 1 / (2 * k * 2^q), with q as in DivisionError
        halfSpacing == k * Pow2(Exponent(F, 1) - Exponent(N, k))
        below == IF F = Pow2(Exponent(F, 1))
                 THEN 4 * x * (0 - d) > halfSpacing
                 ELSE 2 * x * (0 - d) > halfSpacing
    IN IF x = 0 \/ (x * N) % k # 0 THEN F
       ELSE IF d < 0 /\ below THEN F - 1
       ELSE F

(***************************************************************************)
(* analyze_single_repo: the gh commands and what they answer.              *)
(***************************************************************************)
SampleCap == 20

\* run_command (lines 36-54) returns None after a CalledProcessError or a
\* TimeoutExpired and the stripped stdout otherwise; any other exception of
\* subprocess.run (an OSError, a UnicodeDecodeError) is not caught there.
\* A command therefore ends in one of these ways.
InfoKinds == {"error", "timeout", "empty", "notjson", "object", "raise"}
ListingKinds == {"error", "timeout", "empty", "notjson", "json", "raise"}

\* What run_command returns: None, the empty string, text that is not
\* JSON, or JSON.
RunCommand(kind) ==
    CASE kind \in {"error", "timeout"} -> "None"
      [] kind = "empty" -> "empty"
      [] OTHER -> kind

\* gh pr view <n> --json commits: as above, or a JSON object with n commits.
CommitCounts == {0, 1, 2, 3, 4, 10, 11}

DetailOutcomes ==
    {[kind |-> k, n |-> 0] : k \in {"None", "empty", "notjson", "raise"}}
    \cup {[kind |-> "commits", n |-> c] : c \in CommitCounts}

\* The repository's pull requests, as gh pr list prints them: the unmerged
\* ones (mergedAt: null) first, then the merged ones.
PrList(unmerged, merged) ==
    [j \in 1..(unmerged + merged) |-> [number |-> j, mergedAt |-> j > unmerged]]

\* The answer to gh pr view for one pull request.
DetailOf(prov, pr) ==
    IF pr.number % 2 = 1 THEN prov.detail[1] ELSE prov.detail[2]

\* The JSON object gh repo view prints.
RepoInfoObject ==
    [language |-> "Python", stargazerCount |-> 7, forkCount |-> 2,
     defaultBranch |-> "master", pushedAt |-> "2024-05-01"]

\* dict.get(key, default)
Get(dict, key, default) == IF key \in DOMAIN dict THEN dict[key] ELSE default

\* Lines 115-120.
ParseRepoInfo(out) == IF out = "object" THEN RepoInfoObject ELSE EmptyDict

Zero == Rat(0, 1)

\* Lines 126-145.
InitialMetrics(org, repo_name, info) ==
    [repo_name |-> repo_name,
     full_name |-> <<org, repo_name>>,
     language |-> Get(info, "language", "Unknown"),
     stars |-> Get(info, "stargazerCount", 0),
     forks |-> Get(info, "forkCount", 0),
     default_branch |-> Get(info, "defaultBranch", "main"),
     last_push |-> Get(info, "pushedAt", "Unknown"),
     total_prs |-> 0,
     merged_prs |-> 0,
     merge_rate |-> Zero,
     avg_commits_per_pr |-> Zero,
     median_commits_per_pr |-> Zero,
     total_pr_commits |-> 0,
     single_commit_prs |-> 0,
     small_prs |-> 0,
     medium_prs |-> 0,
     large_prs |-> 0,
     analysis_date |-> "now"]

\* Lines 147-149 and 151-152 with 223-226: what the function does with the
\* output of gh pr list.
OnListingUncaught(out) ==
    IF out \in {"None", "empty"} THEN "return" ELSE IF out = "notjson" THEN "raise" ELSE "parse"

OnListing(out) ==
    IF out \in {"None", "empty"} THEN "return" ELSE IF out = "notjson" THEN "return" ELSE "parse"

\* Line 160.
MergedPrs(prs) == SelectSeq(prs, LAMBDA pr : pr.mergedAt)

\* Lines 153-164.
WithPrCounts(m, prs) ==
    LET merged == Len(MergedPrs(prs)) IN
    [m EXCEPT !.total_prs = Len(prs),
              !.merged_prs = merged,
              !.merge_rate = IF Len(prs) > 0 THEN Rat(merged * 100, Len(prs)) ELSE @]

\* Line 168.
SampleSize(merged) == IF SampleCap < Len(merged) THEN SampleCap ELSE Len(merged)

\* Lines 187-194.
BucketOf(c) ==
    IF c = 1 THEN "single_commit_prs"
    ELSE IF c <= 3 THEN "small_prs"
    ELSE IF c <= 10 THEN "medium_prs"
    ELSE "large_prs"

\* Lines 179-197: the body of the loop for one answer of gh pr view.
FetchStepNoElse(st, outcome) ==
    CASE outcome.kind = "raise" -> [st EXCEPT !.raised = TRUE]
      [] outcome.kind = "commits" /\ outcome.n <= 10 ->
            [st EXCEPT !.commit_counts = Append(@, outcome.n),
                       !.metrics[BucketOf(outcome.n)] = @ + 1]
      [] outcome.kind = "commits" /\ outcome.n > 10 ->
            [st EXCEPT !.commit_counts = Append(@, outcome.n)]
      [] OTHER -> st

FetchStepAborts(st, outcome) ==
    CASE outcome.kind \in {"raise", "notjson"} -> [st EXCEPT !.raised = TRUE]
      [] outcome.kind = "commits" ->
            [st EXCEPT !.commit_counts = Append(@, outcome.n),
                       !.metrics[BucketOf(outcome.n)] = @ + 1]
      [] OTHER -> st

FetchStep(st, outcome) ==
    CASE outcome.kind = "raise" -> [st EXCEPT !.raised = TRUE]
      [] outcome.kind = "commits" ->
            [st EXCEPT !.commit_counts = Append(@, outcome.n),
                       !.metrics[BucketOf(outcome.n)] = @ + 1]
      [] OTHER -> st

Buckets == {"single_commit_prs", "small_prs", "medium_prs", "large_prs"}

\* Lines 203-214.
Statistics(m, counts, k, N) ==
    IF counts = <<>> THEN m
    ELSE LET m1 == [m EXCEPT !.avg_commits_per_pr = Mean(counts),
                             !.median_commits_per_pr = Median(counts),
                             !.total_pr_commits = Sum(counts)]
         IN IF k < N
            THEN [f \in DOMAIN m1 |->
                    IF f \in Buckets \cup {"total_pr_commits"}
                    THEN FloatScale(m1[f], N, k) ELSE m1[f]]
            ELSE m1

\* Lines 147-170: from the output of gh pr list to the start of the loop.
\* kind is where the function stands afterwards: it has returned the record,
\* an exception has left it, or the loop over the sample begins.
AfterListing(m0, out, prs) ==
    CASE OnListing(out) = "return" ->
            [kind |-> "returned", metrics |-> m0, merged |-> <<>>, k |-> 0]
      [] OnListing(out) = "raise" ->
            [kind |-> "raised", metrics |-> m0, merged |-> <<>>, k |-> 0]
      [] OTHER ->
            IF prs = <<>>
            THEN [kind |-> "returned", metrics |-> m0, merged |-> <<>>, k |-> 0]
            ELSE LET merged == MergedPrs(prs)
                     k == SampleSize(merged)
                     m1 == WithPrCounts(m0, prs)
                 IN IF k = 0
                    THEN [kind |-> "returned", metrics |-> Statistics(m1, <<>>, 0, 0),
                          merged |-> merged, k |-> 0]
                    ELSE [kind |-> "fetch", metrics |-> m1, merged |-> merged, k |-> k]

\* Lines 172-200: the loop over the sample, from its j-th element on.
RECURSIVE FetchLoop(_, _, _, _)
FetchLoop(prov, sample, j, st) ==
    IF j > Len(sample) \/ st.raised THEN st
    ELSE FetchLoop(prov, sample, j + 1, FetchStep(st, DetailOf(prov, sample[j])))

\* Lines 103-226 as one call: the record returned, or raised = TRUE when an
\* exception leaves the function.
analyze_single_repo(org, repo_name, prov) ==
    LET Raise == [raised |-> TRUE, metrics |-> None] IN
    IF prov.info = "raise" \/ prov.listing = "raise" THEN Raise
    ELSE LET info == ParseRepoInfo(RunCommand(prov.info))
             r == AfterListing(InitialMetrics(org, repo_name, info),
                               RunCommand(prov.listing),
                               PrList(prov.unmerged, prov.merged))
         IN CASE r.kind = "raised" -> Raise
              [] r.kind = "returned" -> [raised |-> FALSE, metrics |-> r.metrics]
              [] OTHER ->
                    LET st == FetchLoop(prov, SubSeq(r.merged, 1, r.k), 1,
                                        [metrics |-> r.metrics, commit_counts |-> <<>>,
                                         raised |-> FALSE])
                    IN IF st.raised THEN Raise
                       ELSE [raised |-> FALSE,
                             metrics |-> Statistics(st.metrics, st.commit_counts,
                                                    r.k, Len(r.merged))]

(***************************************************************************)
(* analyze_single_repo, one action per gh command.                         *)
(***************************************************************************)
OrgName == "org"
RepoName == "repo"

\* The answers of the gh commands of one run.  What is never asked for is
\* left at a fixed value.
Providers(info, listing, unmerged, merged, d1, d2) ==
    /\ info \in InfoKinds
    /\ listing \in ListingKinds
    /\ unmerged \in 0..MaxUnmerged
    /\ merged \in 0..MaxMerged
    /\ d1 \in DetailOutcomes
    /\ d2 \in DetailOutcomes
    /\ info = "raise" => listing = "error"
    /\ listing # "json" => unmerged = 0 /\ merged = 0
    /\ merged = 0 => d1 = NoDetail /\ d2 = NoDetail

RepoInit ==
    /\ \E info \in InfoKinds, listing \in ListingKinds,
          unmerged \in 0..MaxUnmerged, merged \in 0..MaxMerged,
          d1 \in DetailOutcomes, d2 \in DetailOutcomes :
          /\ Providers(info, listing, unmerged, merged, d1, d2)
          /\ provider = [info |-> info, listing |-> listing, unmerged |-> unmerged,
                         merged |-> merged, detail |-> <<d1, d2>>]
    /\ rpc = "repo_view"
    /\ repo_info = EmptyDict
    /\ pr_output = "unset"
    /\ merged_prs = <<>>
    /\ sample_size = 0
    /\ idx = 0
    /\ commit_counts = <<>>
    /\ attempted = <<>>
    /\ metrics = None
    /\ GitIdle
    /\ MainIdle
    /\ EstIdle

\* Lines 112-120: gh repo view.
RepoView ==
    /\ rpc = "repo_view"
    /\ IF provider.info = "raise"
       THEN rpc' = "raised" /\ UNCHANGED repo_info
       ELSE rpc' = "pr_list" /\ repo_info' = ParseRepoInfo(RunCommand(provider.info))
    /\ UNCHANGED <<provider, pr_output, merged_prs, sample_size, idx, commit_counts,
                   attempted, metrics>>
    /\ UNCHANGED <<gitVars, mainVars, estVars>>

\* Lines 123-170: gh pr list, the default record, the counts of the listed
\* pull requests; the function returns here (lines 149, 157, 226) unless
\* there is a merged pull request to sample.
PrListStep ==
    /\ rpc = "pr_list"
    /\ IF provider.listing = "raise"
       THEN /\ rpc' = "raised"
            /\ UNCHANGED <<pr_output, merged_prs, sample_size, metrics>>
       ELSE LET out == RunCommand(provider.listing)
                r == AfterListing(InitialMetrics(OrgName, RepoName, repo_info), out,
                                  PrList(provider.unmerged, provider.merged))
            IN /\ pr_output' = out
               /\ metrics' = r.metrics
               /\ rpc' = r.kind
               /\ merged_prs' = r.merged
               /\ sample_size' = r.k
    /\ UNCHANGED <<provider, repo_info, idx, commit_counts, attempted>>
    /\ UNCHANGED <<gitVars, mainVars, estVars>>

\* Lines 172-200: one iteration of the loop, with its gh pr view; after
\* the last one, lines 202-226.
FetchPR ==
    /\ rpc = "fetch"
    /\ idx < sample_size
    /\ attempted' = Append(attempted, merged_prs[idx + 1].number)
    /\ LET pr == merged_prs[idx + 1]
           st == FetchStep([metrics |-> metrics, commit_counts |-> commit_counts,
                            raised |-> FALSE],
                           DetailOf(provider, pr))
       IN IF st.raised
          THEN /\ rpc' = "raised"
               /\ UNCHANGED <<idx, commit_counts, metrics>>
          ELSE /\ idx' = idx + 1
               /\ commit_counts' = st.commit_counts
               /\ IF idx + 1 = sample_size
                  THEN /\ metrics' = Statistics(st.metrics, st.commit_counts,
                                                sample_size, Len(merged_prs))
                       /\ rpc' = "returned"
                  ELSE /\ metrics' = st.metrics
                       /\ UNCHANGED rpc
    /\ UNCHANGED <<provider, repo_info, pr_output, merged_prs, sample_size>>
    /\ UNCHANGED <<gitVars, mainVars, estVars>>

RepoNext == RepoView \/ PrListStep \/ FetchPR

(***************************************************************************)
(* main, generate_org_summary and export_to_csv (analyze_org_repos.py).    *)
(***************************************************************************)
RatAdd(p, q) == Rat(p.num * q.den + q.num * p.den, p.den * q.den)

SumOfFirst(ms, f) == IF ms = <<>> THEN 0 ELSE ms[1][f]

RECURSIVE SumOf(_, _)
SumOf(ms, f) == IF ms = <<>> THEN 0 ELSE ms[1][f] + SumOf(Tail(ms), f)

RECURSIVE RatSum(_)
RatSum(qs) == IF qs = <<>> THEN Zero ELSE RatAdd(qs[1], RatSum(Tail(qs)))

RECURSIVE SortedByPrsUnstable(_)
SortedByPrsUnstable(ms) ==
    IF ms = <<>> THEN <<>>
    ELSE LET rest == SortedByPrsUnstable(Tail(ms))
             x == ms[1]
             before == SelectSeq(rest, LAMBDA y : y.total_prs >= x.total_prs)
             after == SelectSeq(rest, LAMBDA y : y.total_prs < x.total_prs)
         IN before \o <<x>> \o after

\* sorted(all_metrics, key=total_prs, reverse=True): stable, by insertion.
RECURSIVE SortedByPrs(_)
SortedByPrs(ms) ==
    IF ms = <<>> THEN <<>>
    ELSE LET rest == SortedByPrs(Tail(ms))
             x == ms[1]
             before == SelectSeq(rest, LAMBDA y : y.total_prs > x.total_prs)
             after == SelectSeq(rest, LAMBDA y : y.total_prs <= x.total_prs)
         IN before \o <<x>> \o after

RankingLength == 10

FirstN(seq, n) == SubSeq(seq, 1, IF Len(seq) < n THEN Len(seq) ELSE n)

\* Lines 228-285: what generate_org_summary prints.
generate_org_summary(ms) ==
    IF ms = <<>> THEN [no_data |-> TRUE]
    ELSE LET total_prs == SumOf(ms, "total_prs")
             total_merged == SumOf(ms, "merged_prs")
             with_data == SelectSeq(ms, LAMBDA m : m.avg_commits_per_pr.num > 0)
             avgs == [j \in 1..Len(with_data) |-> with_data[j].avg_commits_per_pr]
             langs == {ms[j].language : j \in 1..Len(ms)} \ {"Unknown"}
             ranked == SelectSeq(FirstN(SortedByPrs(ms), RankingLength),
                                 LAMBDA m : m.total_prs > 0)
         IN [no_data |-> FALSE,
             total_repos |-> Len(ms),
             repos_with_prs |-> Len(SelectSeq(ms, LAMBDA m : m.total_prs > 0)),
             total_prs |-> total_prs,
             total_merged |-> total_merged,
             org_merge_rate |-> IF total_prs > 0
                                THEN Rat(total_merged * 100, total_prs) ELSE None,
             languages |-> [l \in langs |->
                              Len(SelectSeq(ms, LAMBDA m : m.language = l))],
             total_single |-> SumOf(ms, "single_commit_prs"),
             total_small |-> SumOf(ms, "small_prs"),
             total_medium |-> SumOf(ms, "medium_prs"),
             total_large |-> SumOf(ms, "large_prs"),
             avg_commits_org |-> IF with_data # <<>>
                                 THEN LET t == RatSum(avgs)
                                      IN Rat(t.num, t.den * Len(with_data))
                                 ELSE None,
             most_active |-> [j \in 1..Len(ranked) |-> ranked[j].repo_name]]

\* Lines 291-296.
fieldnames ==
    <<"repo_name", "full_name", "language", "stars", "forks", "default_branch",
      "total_prs", "merged_prs", "merge_rate", "avg_commits_per_pr",
      "median_commits_per_pr", "total_pr_commits", "single_commit_prs", "small_prs",
      "medium_prs", "large_prs", "last_push", "analysis_date">>

\* Lines 298-302: the header row, then one row per record.
export_to_csv(ms) ==
    <<fieldnames>> \o
    [j \in 1..Len(ms) |-> [c \in 1..Len(fieldnames) |-> ms[j][fieldnames[c]]]]

\* What gh answers about a repository of the organization; each repository
\* is one of these.
Answers(info, listing, unmerged, merged, d1, d2) ==
    [info |-> info, listing |-> listing, unmerged |-> unmerged, merged |-> merged,
     detail |-> <<d1, d2>>]

RepoBehaviours ==
    { Answers("object", "json", 2, 8, [kind |-> "commits", n |-> 1],
              [kind |-> "commits", n |-> 11]),
      Answers("object", "json", 0, 5, [kind |-> "commits", n |-> 3], NoDetail),
      Answers("object", "json", 0, 21, [kind |-> "commits", n |-> 2],
              [kind |-> "notjson", n |-> 0]),
      Answers("error", "json", 0, 0, NoDetail, NoDetail),
      Answers("object", "timeout", 0, 0, NoDetail, NoDetail),
      Answers("object", "json", 0, 2, [kind |-> "commits", n |-> 4],
              [kind |-> "raise", n |-> 0]),
      Answers("raise", "error", 0, 0, NoDetail, NoDetail) }

\* A repository as gh repo list prints it: when it was last updated
\* (updatedAt: within the last year, longer ago, absent, or not a date),
\* and what gh will answer about it.  A repository that is not analysed
\* has no answers that matter.
OldRepo ==
    [updatedAt |-> "old",
     answers |-> Answers("error", "error", 0, 0, NoDetail, NoDetail)]

ListedRepos ==
    {[updatedAt |-> "recent", answers |-> a] : a \in RepoBehaviours}
    \cup {[updatedAt |-> u, answers |-> Answers("error", "json", 0, 0, NoDetail, NoDetail)] :
            u \in {"absent", "unparseable"}}
    \cup {OldRepo}

OrgListingKinds == {"error", "timeout", "empty", "notjson", "json"}

\* Lines 56-101: the repositories updated within the last year, or whose
\* date is absent or unreadable; none when the command fails or its output
\* is not JSON.
get_organization_repos(kind, listed) ==
    IF RunCommand(kind) # "json" THEN <<>>
    ELSE LET active == SelectSeq(listed, LAMBDA r : r.updatedAt # "old")
         IN [j \in 1..Len(active) |-> active[j].answers]

\* main is entered.
MainInit ==
    /\ \E n \in 0..MaxRepos : org_repos \in [1..n -> ListedRepos]
    /\ export_csv \in BOOLEAN
    /\ startup = None
    /\ repos = <<>>
    /\ mpc = "start"
    /\ loop_i = 0
    /\ all_metrics = <<>>
    /\ report = None
    /\ csv_rows = None
    /\ outcomes = <<>>
    /\ interrupted = 0
    /\ GitIdle
    /\ RepoIdle
    /\ EstIdle

\* Lines 318-363: the checks before the loop.  exit1 is sys.exit(1), exit0
\* a return from main.
MainStart ==
    /\ mpc = "start"
    /\ \E auth_check \in BOOLEAN, org_check \in BOOLEAN, listing \in OrgListingKinds,
          skip_analysis \in BOOLEAN :
          IF ~auth_check
          THEN /\ startup' = [auth_check |-> FALSE, org_check |-> "not run",
                              listing |-> "not run"]
               /\ mpc' = "exit1"
               /\ UNCHANGED repos
          ELSE IF ~org_check
          THEN /\ startup' = [auth_check |-> TRUE, org_check |-> FALSE,
                              listing |-> "not run"]
               /\ mpc' = "exit1"
               /\ UNCHANGED repos
          ELSE /\ startup' = [auth_check |-> TRUE, org_check |-> TRUE,
                              listing |-> listing]
               /\ repos' = get_organization_repos(listing, org_repos)
               /\ mpc' = IF get_organization_repos(listing, org_repos) = <<>> THEN "exit1"
                         ELSE IF skip_analysis THEN "exit0"
                         ELSE "loop"
    /\ loop_i' = 1
    /\ UNCHANGED <<org_repos, export_csv, all_metrics, report, csv_rows, outcomes,
                   interrupted>>
    /\ UNCHANGED <<gitVars, repoVars, estVars>>

\* Where the for loop of line 365 goes after iteration loop_i.
AfterIteration == IF loop_i = Len(repos) THEN "summary" ELSE "loop"

\* Lines 365-369 and 373-375: one iteration that no interrupt disturbs.
AnalyzeRepo ==
    /\ mpc = "loop"
    /\ LET r == analyze_single_repo(OrgName, loop_i, repos[loop_i])
       IN IF r.raised
          THEN /\ outcomes' = Append(outcomes, "exception")
               /\ UNCHANGED all_metrics
          ELSE /\ outcomes' = Append(outcomes, "record")
               /\ all_metrics' = Append(all_metrics, r.metrics)
    /\ mpc' = AfterIteration
    /\ loop_i' = IF loop_i = Len(repos) THEN loop_i ELSE loop_i + 1
    /\ UNCHANGED <<org_repos, startup>>
    /\ UNCHANGED <<repos, export_csv, report, csv_rows, interrupted>>
    /\ UNCHANGED <<gitVars, repoVars, estVars>>

\* Lines 370-372: KeyboardInterrupt arrives inside analyze_single_repo.
Interrupt ==
    /\ mpc = "loop"
    /\ interrupted' = loop_i
    /\ mpc' = "summary"
    /\ UNCHANGED <<org_repos, startup>>
    /\ UNCHANGED <<repos, export_csv, loop_i, all_metrics, report, csv_rows, outcomes>>
    /\ UNCHANGED <<gitVars, repoVars, estVars>>

SummarizeInPlace ==
    /\ mpc = "summary"
    /\ report' = generate_org_summary(all_metrics)
    /\ all_metrics' = SortedByPrs(all_metrics)
    /\ mpc' = IF export_csv THEN "export" ELSE "exit0"
    /\ UNCHANGED <<org_repos, startup>>
    /\ UNCHANGED <<repos, export_csv, loop_i, csv_rows, outcomes, interrupted>>
    /\ UNCHANGED <<gitVars, repoVars, estVars>>

\* Line 378.
Summarize ==
    /\ mpc = "summary"
    /\ report' = generate_org_summary(all_metrics)
    /\ mpc' = IF export_csv THEN "export" ELSE "exit0"
    /\ UNCHANGED <<org_repos, startup>>
    /\ UNCHANGED <<repos, export_csv, loop_i, all_metrics, csv_rows, outcomes,
                   interrupted>>
    /\ UNCHANGED <<gitVars, repoVars, estVars>>

\* Lines 381-384.
Export ==
    /\ mpc = "export"
    /\ csv_rows' = export_to_csv(all_metrics)
    /\ mpc' = "exit0"
    /\ UNCHANGED <<org_repos, startup>>
    /\ UNCHANGED <<repos, export_csv, loop_i, all_metrics, report, outcomes,
                   interrupted>>
    /\ UNCHANGED <<gitVars, repoVars, estVars>>

MainNext == MainStart \/ AnalyzeRepo \/ Interrupt \/ Summarize \/ Export

(***************************************************************************)
(* analyze_pr_vs_direct_commits (git_commit_analysis.py), on the same      *)
(* commit histories as compute_pr_vs_direct_commit_ratio.                  *)
(***************************************************************************)
EstimateSampleCap == 10

\* git rev-list --count <merge_base>..<pr_head>
RevListCount(h, merge_base, pr_head) == Cardinality(RevListNotIn(h, pr_head, merge_base))

\* Line 172: int(pr_merge_count * statistics.mean(sample)), in doubles.
EstimatedPrCommits(pr_merge_count, sample) ==
    IF Sum(sample) = 0 THEN 0
    ELSE FloatScale(pr_merge_count, Sum(sample), Len(sample))

MaxOf(a, b) == IF a > b THEN a ELSE b

\* Lines 188-194 when nothing was sampled or no sampled count was usable.
StatsWithoutEstimate(total_commits, merge_count, pr_merge_count) ==
    [total_commits |-> total_commits,
     merge_commits |-> merge_count,
     pr_merges |-> pr_merge_count,
     estimated_pr_commits |-> 0,
     estimated_direct_commits |-> total_commits - merge_count]

\* Lines 170-173 and 188-194 with a non-empty sample.
StatsWithEstimate(total_commits, merge_count, pr_merge_count, sample) ==
    LET estimated_pr_commits == EstimatedPrCommits(pr_merge_count, sample)
    IN [total_commits |-> total_commits,
        merge_commits |-> merge_count,
        pr_merges |-> pr_merge_count,
        estimated_pr_commits |-> estimated_pr_commits,
        estimated_direct_commits |->
            (total_commits - merge_count) - estimated_pr_commits]

\* Lines 170-194: the end of the function once the sampling loop is over.
FinishEstimate(sample, pr_merge_count) ==
    LET total_commits == Cardinality(RevList(parents))
        merge_count == Len(merge_commits)
    IN IF sample = <<>>
       THEN /\ commit_stats' = StatsWithoutEstimate(total_commits, merge_count,
                                                    pr_merge_count)
            /\ printed_direct' = None
       ELSE LET stats == StatsWithEstimate(total_commits, merge_count,
                                           pr_merge_count, sample)
            IN /\ commit_stats' = stats
               /\ printed_direct' = [value |-> MaxOf(0, stats.estimated_direct_commits)]

\* Lines 114-153: the function is called on the branch; git log answers or
\* fails, git log --merges answers or fails, and some of the merge commits
\* have a subject that names a pull request.
CallEstimate ==
    /\ gpc = "history"
    /\ Reach(parents, BranchHead(parents)) = 1..Len(parents)
    /\ \E logOk \in BOOLEAN, mergesOk \in BOOLEAN,
          subjects \in SUBSET {c \in RevList(parents) : IsMerge(parents, c)} :
          LET merges == IF mergesOk THEN LogMerges(parents) ELSE <<>>
              prs == SelectSeq(merges, LAMBDA c : c \in subjects)
          IN /\ pr_subjects' = subjects
             /\ queries_ok' = (logOk /\ mergesOk)
             /\ IF ~logOk
                THEN /\ gpc' = "est_done"
                     /\ commit_stats' = None
                     /\ UNCHANGED <<merge_commits, pr_merges, to_sample, printed_direct>>
                ELSE /\ merge_commits' = merges
                     /\ pr_merges' = prs
                     /\ IF prs = <<>>
                        THEN /\ gpc' = "est_done"
                             /\ FinishEstimate(<<>>, 0)
                             /\ UNCHANGED to_sample
                        ELSE /\ gpc' = "est_sample"
                             /\ to_sample' = FirstN(prs, EstimateSampleCap)
                             /\ UNCHANGED <<commit_stats, printed_direct>>
    /\ UNCHANGED <<parents, all_commits_set, pr_commits_set, pr_commits_on_main,
                   direct_commits, git_result, sample_pr_commits>>
    /\ UNCHANGED <<repoVars, mainVars>>

\* Lines 158-168: one sampled PR merge, its rev-list --count answering or
\* failing; after the last one, lines 170-194.
SamplePrMerge ==
    /\ gpc = "est_sample"
    /\ to_sample # <<>>
    /\ \E ok \in BOOLEAN :
          LET m == to_sample[1]
              merge_base == parents[m][1]
              pr_head == parents[m][2]
              sample == IF ok
                        THEN Append(sample_pr_commits,
                                    RevListCount(parents, merge_base, pr_head))
                        ELSE sample_pr_commits
          IN /\ sample_pr_commits' = sample
             /\ queries_ok' = (queries_ok /\ ok)
             /\ to_sample' = Tail(to_sample)
             /\ IF Tail(to_sample) = <<>>
                THEN /\ gpc' = "est_done"
                     /\ FinishEstimate(sample, Len(pr_merges))
                ELSE UNCHANGED <<gpc, commit_stats, printed_direct>>
    /\ UNCHANGED <<parents, all_commits_set, merge_commits, pr_commits_set,
                   pr_commits_on_main, direct_commits, git_result, pr_subjects, pr_merges>>
    /\ UNCHANGED <<repoVars, mainVars>>

EstNext == Commit \/ CallEstimate \/ SamplePrMerge

(***************************************************************************)
(* The specifications: one program at a time, the others not running.      *)
(***************************************************************************)
SpecClassifier == GitInit /\ [][GitNext]_vars

SpecRepo == RepoInit /\ [][RepoNext]_vars

SpecMain == MainInit /\ [][MainNext]_vars

SpecEstimate == GitInit /\ [][EstNext]_vars


(***************************************************************************)
(* Properties of analyze_single_repo (under SpecRepo).                     *)
(***************************************************************************)
RepoReturned == rpc = "returned"

\* The number of fetched commit counts that satisfy a condition.
CountOf(counts, Test(_)) == Len(SelectSeq(counts, Test))

\* The bucket counts of the sample before any scaling, as lines 187-194
\* accumulate them.
RawBucket(counts, b) == CountOf(counts, LAMBDA c : BucketOf(c) = b)

BucketSum(m) == m.single_commit_prs + m.small_prs + m.medium_prs + m.large_prs

Extrapolated == commit_counts # <<>> /\ sample_size < Len(merged_prs)

\* C5 (the claim as stated): with at least one commit count fetched and
\* k = min(20, N) < N, total_pr_commits and each bucket count equal the raw
\* sample figure * N / k truncated toward zero; with k = N they equal the
\* raw sample figures.
C5_ScaledByTruncation ==
    (RepoReturned /\ commit_counts # <<>>) =>
        LET N == Len(merged_prs)
            k == sample_size
        IN IF k < N
           THEN /\ metrics.total_pr_commits = ExactScale(Sum(commit_counts), N, k)
                /\ \A b \in Buckets :
                      metrics[b] = ExactScale(RawBucket(commit_counts, b), N, k)
           ELSE /\ metrics.total_pr_commits = Sum(commit_counts)
                /\ \A b \in Buckets : metrics[b] = RawBucket(commit_counts, b)

\* C6 (the claim as stated): before any scaling, the four bucket counts are
\* the numbers of fetched counts c with c = 1, 2 <= c <= 3, 4 <= c <= 10 and
\* c >= 11; a count of 0 is in no bucket's range and never adds to small.
C6_BucketsByRange ==
    (rpc = "fetch" \/ (RepoReturned /\ ~Extrapolated /\ merged_prs # <<>>)) =>
        /\ metrics.single_commit_prs = CountOf(commit_counts, LAMBDA c : c = 1)
        /\ metrics.small_prs = CountOf(commit_counts, LAMBDA c : 2 <= c /\ c <= 3)
        /\ metrics.medium_prs = CountOf(commit_counts, LAMBDA c : 4 <= c /\ c <= 10)
        /\ metrics.large_prs = CountOf(commit_counts, LAMBDA c : c >= 11)

MetricsFields ==
    {"repo_name", "full_name", "language", "stars", "forks", "default_branch",
     "last_push", "total_prs", "merged_prs", "merge_rate", "avg_commits_per_pr",
     "median_commits_per_pr", "total_pr_commits", "single_commit_prs", "small_prs",
     "medium_prs", "large_prs", "analysis_date"}

ListingFailed == pr_output \in {"None", "empty", "notjson"}

\* C8: when gh pr list fails (command error, timeout, empty or unparseable
\* output) analyze_single_repo does not raise: it returns a record with
\* every field, whose counts, rates, averages and bucket counts are zero.
C8_ListingFailure ==
    (rpc \in {"returned", "raised"} /\ ListingFailed) =>
        /\ RepoReturned
        /\ DOMAIN metrics = MetricsFields
        /\ \A f \in {"total_prs", "merged_prs", "total_pr_commits"} \cup Buckets :
              metrics[f] = 0
        /\ \A f \in {"merge_rate", "avg_commits_per_pr", "median_commits_per_pr"} :
              metrics[f] = Zero

\* C8 witness: the repository's description was read, the listing printed
\* text that is not JSON, and the record came back.
C8_Witness ==
    /\ RepoReturned
    /\ pr_output = "notjson"
    /\ provider.info = "object"
    /\ metrics.language = "Python"
    /\ metrics.total_prs = 0

(***************************************************************************)
(* Properties of main (under SpecMain).                                    *)
(***************************************************************************)
LoopLeft == mpc \in {"summary", "export", "exit0"}

\* C9 (the claim as stated): when the loop has run to its end without an
\* interrupt, all_metrics holds one complete record for each repository, in
\* input order, whatever happened while any of them was analysed.
C9_EveryRepoHasRecord ==
    (LoopLeft /\ interrupted = 0 /\ Len(outcomes) = Len(repos)) =>
        /\ Len(all_metrics) = Len(repos)
        /\ \A j \in 1..Len(all_metrics) :
              /\ all_metrics[j].repo_name = j
              /\ DOMAIN all_metrics[j] = MetricsFields

\* C10 (the claim as stated): when an interrupt arrived during the analysis
\* of the i-th repository, no repository from position i on was analysed to
\* its end, all_metrics holds the records of the i-1 repositories before
\* it, in order and as analyze_single_repo returned them, and the summary
\* (and the CSV file when asked for) was produced from those records.
C10_InterruptKeepsCompleted ==
    (interrupted > 0 /\ mpc = "exit0") =>
        /\ Len(outcomes) = interrupted - 1
        /\ Len(all_metrics) = interrupted - 1
        /\ \A j \in 1..Len(all_metrics) :
              all_metrics[j] = analyze_single_repo(OrgName, j, repos[j]).metrics
        /\ report = generate_org_summary(all_metrics)
        /\ csv_rows = IF export_csv THEN export_to_csv(all_metrics) ELSE None

(***************************************************************************)
(* Properties of the sampling loop of analyze_single_repo (SpecRepo).      *)
(***************************************************************************)
\* The numbers of the first n pull requests of a list.
NumbersOf(prs, n) == [j \in 1..n |-> prs[j].number]

\* The commit counts gh pr view delivers for the first n pull requests of
\* a list, in list order; a fetch that delivers none adds nothing.
RECURSIVE DeliveredCounts(_, _, _)
DeliveredCounts(prov, prs, n) ==
    IF n = 0 THEN <<>>
    ELSE LET o == DetailOf(prov, prs[n])
         IN IF o.kind = "commits"
            THEN Append(DeliveredCounts(prov, prs, n - 1), o.n)
            ELSE DeliveredCounts(prov, prs, n - 1)

\* No gh pr view of the sample ends in an exception run_command lets through:
\* each is a timeout, a command error, an empty or unparseable answer, or
\* a JSON object.
OnlyHandledFetchFailures ==
    \A j \in 1..sample_size : DetailOf(provider, merged_prs[j]).kind # "raise"

MinOf(a, b) == IF a < b THEN a ELSE b

Summarized == report # None /\ all_metrics # <<>>

\* The sum of a field over the first n records of a list.
RECURSIVE TotalUpTo(_, _, _)
TotalUpTo(ms, f, n) == IF n = 0 THEN 0 ELSE TotalUpTo(ms, f, n - 1) + ms[n][f]

Total(ms, f) == TotalUpTo(ms, f, Len(ms))

\* C12: for a non-empty list the summary's total_prs and total_merged are
\* the sums of the records' total_prs and merged_prs, and the merge rate
\* (a percentage) is total_merged / total_prs; with total_prs = 0 there is
\* no division and no rate.
C12_OrgTotals ==
    Summarized =>
        LET tp == Total(all_metrics, "total_prs")
            tm == Total(all_metrics, "merged_prs")
        IN /\ report.total_prs = tp
           /\ report.total_merged = tm
           /\ IF tp > 0
              THEN /\ report.org_merge_rate # None
                   /\ report.org_merge_rate.num * tp = 100 * tm * report.org_merge_rate.den
              ELSE report.org_merge_rate = None

\* C12 witness: the records (total_prs 10, merged 8) and (total_prs 5,
\* merged 5): the rate is 13/15, i.e. 260/3 per cent.
C12_Witness ==
    /\ Summarized
    /\ Len(all_metrics) = 2
    /\ all_metrics[1].total_prs = 10 /\ all_metrics[1].merged_prs = 8
    /\ all_metrics[2].total_prs = 5 /\ all_metrics[2].merged_prs = 5
    /\ report.total_prs = 15
    /\ report.total_merged = 13
    /\ report.org_merge_rate = [num |-> 260, den |-> 3]

\* A summary of records without any pull request reports no rate.
C12_NoRate ==
    /\ Summarized
    /\ Len(all_metrics) = 2
    /\ report.total_prs = 0
    /\ report.org_merge_rate = None

\* Where the record of a repository stands in the input list.
PositionOf(ms, name) == CHOOSE j \in 1..Len(ms) : ms[j].repo_name = name

\* C13: the ranking lists the repositories that have pull requests by
\* total_prs, largest first, and two repositories with equal total_prs
\* stand in the order they have in the input list.
C13_RankingStable ==
    (Summarized /\ ~report.no_data) =>
        LET r == report.most_active
            pos == [j \in 1..Len(r) |-> PositionOf(all_metrics, r[j])]
        IN /\ {r[j] : j \in 1..Len(r)} =
                 {all_metrics[j].repo_name :
                     j \in {n \in 1..Len(all_metrics) : all_metrics[n].total_prs > 0}}
           /\ \A a, b \in 1..Len(r) :
                 a < b =>
                     \/ all_metrics[pos[a]].total_prs > all_metrics[pos[b]].total_prs
                     \/ /\ all_metrics[pos[a]].total_prs = all_metrics[pos[b]].total_prs
                        /\ pos[a] < pos[b]

\* C13 witness: two repositories with 5 pull requests each, then one with
\* 10: the ranking is third, first, second.
C13_Witness ==
    /\ Summarized
    /\ Len(all_metrics) = 3
    /\ all_metrics[1].total_prs = 5
    /\ all_metrics[2].total_prs = 5
    /\ all_metrics[3].total_prs = 10
    /\ report.most_active = <<3, 1, 2>>

\* The organization-weighted average of commits per pull request.
WeightedAverage(ms) == Rat(Total(ms, "total_pr_commits"), Total(ms, "merged_prs"))

\* The average commits-per-PR figures a summary carries.
AverageFigures(rep) == {rep.avg_commits_org} \ {None}

\* C14 (the claim as stated): the summary carries both the weighted
\* average (sum of total_pr_commits) / (sum of merged_prs) and the
\* unweighted mean of the repositories' own averages.
C14_BothAveragesReported ==
    (Summarized /\ ~report.no_data /\ Total(all_metrics, "total_pr_commits") > 0) =>
        /\ WeightedAverage(all_metrics) \in AverageFigures(report)
        /\ \E unweighted \in AverageFigures(report) :
              unweighted # WeightedAverage(all_metrics)

(***************************************************************************)
(* Properties of main's exit code (under SpecMain).                        *)
(***************************************************************************)
\* An authentication or access failure before the loop: gh auth status or
\* gh api orgs/<org> failed, or gh repo list ended in an error or timeout.
AccessFailure ==
    /\ startup # None
    /\ \/ ~startup.auth_check
       \/ startup.org_check = FALSE
       \/ startup.listing \in {"error", "timeout"}

LoopReached == outcomes # <<>> \/ interrupted > 0 \/ mpc = "loop"

\* C15 (the claim as stated): a run that reaches the loop never ends with
\* a non-zero exit code, interrupted or not, and a run ends with a non-zero
\* exit code only after an authentication or access failure; an
\* organization that was listed but has no repository left after the
\* activity filter does not make the exit code non-zero.
C15_ExitCodes ==
    /\ LoopReached => mpc # "exit1"
    /\ mpc = "exit1" => AccessFailure

(***************************************************************************)
(* generate_org_summary and its input (under SpecMain).                    *)
(***************************************************************************)
\* C16: the call of generate_org_summary leaves all_metrics as it was:
\* the same length, the same order, the same field values.
C16_SummaryKeepsInput ==
    [][mpc = "summary" => all_metrics' = all_metrics]_vars

\* C16 witness: a summary was made of records that are not in ranking
\* order, and the list still has them in input order.
C16_Witness ==
    /\ Summarized
    /\ Len(all_metrics) >= 2
    /\ all_metrics # SortedByPrs(all_metrics)
    /\ \A j \in 1..Len(all_metrics) : PositionOf(all_metrics, all_metrics[j].repo_name) = j
    /\ all_metrics[1].total_prs < all_metrics[2].total_prs
    /\ report.most_active[1] # all_metrics[1].repo_name

(***************************************************************************)
(* Merge commits in compute_pr_vs_direct_commit_ratio (SpecClassifier).    *)
(***************************************************************************)
\* C17 (the claim as stated): every merge commit of All is classified as
\* Direct, also a merge commit that lies on a side branch merged later.
C17_MergesAreDirect ==
    Returned => MergesOnBranch \subseteq direct_commits

(***************************************************************************)
(* Bounds on the counts of a returned record (under SpecRepo).             *)
(***************************************************************************)
\* C18: when the function extrapolates (k < N, at least one count
\* fetched), total_pr_commits and every bucket count are at least the value
\* measured on the sample.
C18_ExtrapolationNeverLowers ==
    (RepoReturned /\ Extrapolated) =>
        /\ Len(merged_prs) > sample_size
        /\ metrics.total_pr_commits >= Sum(commit_counts)
        /\ \A b \in Buckets : metrics[b] >= RawBucket(commit_counts, b)

\* C18 witness: 23 merged pull requests, sample total 100 extrapolated to
\* 114, sample bucket 10 extrapolated to 11.
C18_Witness ==
    /\ RepoReturned /\ Extrapolated
    /\ Len(merged_prs) = 23
    /\ Sum(commit_counts) = 100
    /\ metrics.total_pr_commits = 114
    /\ RawBucket(commit_counts, "medium_prs") = 10
    /\ metrics.medium_prs = 11

\* C19: in every returned record the four bucket counts add up to at most
\* merged_prs, merged_prs is at most total_prs, and merge_rate lies
\* between 0 and 100.
C19_CountsWithinBounds ==
    RepoReturned =>
        /\ BucketSum(metrics) <= metrics.merged_prs
        /\ metrics.merged_prs <= metrics.total_prs
        /\ metrics.merge_rate.den > 0
        /\ 0 <= metrics.merge_rate.num
        /\ metrics.merge_rate.num <= 100 * metrics.merge_rate.den

\* C19 witness: an extrapolated record with an unmerged pull request, two
\* non-empty buckets and a bucket sum above the sample size.
C19_Witness ==
    /\ RepoReturned /\ Extrapolated
    /\ metrics.total_prs > metrics.merged_prs
    /\ metrics.single_commit_prs > 0
    /\ metrics.large_prs > 0
    /\ BucketSum(metrics) > sample_size
    /\ BucketSum(metrics) <= metrics.merged_prs
    /\ metrics.merge_rate.den > 1

(***************************************************************************)
(* Properties of analyze_pr_vs_direct_commits (under SpecEstimate).        *)
(***************************************************************************)
EstimateReturned == gpc = "est_done" /\ commit_stats # None

\* C20 (the claim as stated): in the returned record
\* 0 <= estimated_direct_commits <= total_commits, and the value is the
\* clamped one the function printed.
C20_DirectEstimateInRange ==
    EstimateReturned =>
        /\ 0 <= commit_stats.estimated_direct_commits
        /\ commit_stats.estimated_direct_commits <= commit_stats.total_commits
        /\ printed_direct # None =>
              commit_stats.estimated_direct_commits = printed_direct.value

====
